---- MODULE Spec2Model ----
(***************************************************************************)
(* Model of the portfolio optimizer (backend/services/optimizer.py) and of *)
(* the backtest engine (backend/services/backtest.py).                     *)
(*                                                                         *)
(* Numbers.  Python floats are modelled as exact rationals kept as        *)
(* integers over a stated denominator:                                     *)
(*   - a daily return is an integer number of 1/RetDen,                    *)
(*   - a bound of the risk table and min_weight are whole percents,        *)
(*   - the normalised weight vector is  num[i] / den,                      *)
(*   - a weight of the result (round(w, 4)) is an integer number of 1e-4.  *)
(* NaN (a missing cell of a DataFrame) is the empty tuple << >>, a value   *)
(* v is << v >>.                                                           *)
(***************************************************************************)
EXTENDS Integers, Sequences, FiniteSets, TLC

\* ------------------------------------------------------------ bounds ----
\* Number of symbols a caller may pass to optimize.
MaxSyms == 3
\* Number of dates of the lookback period the price provider knows.
MaxDate == 3

SymbolNames == <<"A", "B", "C", "D", "E", "F">>
Symbols == {SymbolNames[i] : i \in 1..MaxSyms}
Dates == 1..MaxDate

SymIdx(s) == CHOOSE i \in 1..Len(SymbolNames) : SymbolNames[i] = s

\* ----------------------------------------------------------- helpers ----
Abs(x) == IF x < 0 THEN -x ELSE x

RECURSIVE GCD(_, _)
GCD(a, b) == IF b = 0 THEN Abs(a) ELSE GCD(b, a % b)

Min(S) == CHOOSE x \in S : \A y \in S : x <= y
Max(S) == CHOOSE x \in S : \A y \in S : x >= y

RECURSIVE SortedSeq(_)
\* The elements of a finite set of integers, ascending.
SortedSeq(S) == IF S = {} THEN << >> ELSE << Min(S) >> \o SortedSeq(S \ {Min(S)})

Range(q) == {q[i] : i \in 1..Len(q)}

RECURSIVE SumSeq(_)
SumSeq(q) == IF q = << >> THEN 0 ELSE Head(q) + SumSeq(Tail(q))

RECURSIVE SumFn(_)
\* The sum of the values of a function with a finite domain.
SumFn(f) ==
    IF DOMAIN f = {} THEN 0
    ELSE LET k == CHOOSE k \in DOMAIN f : TRUE
         IN f[k] + SumFn([j \in (DOMAIN f) \ {k} |-> f[j]])

RECURSIVE SelectSeqIn(_, _)
\* The subsequence of q whose elements are in S.
SelectSeqIn(q, S) ==
    IF q = << >> THEN << >>
    ELSE (IF Head(q) \in S THEN << Head(q) >> ELSE << >>) \o SelectSeqIn(Tail(q), S)

\* Every ordered, duplicate-free list drawn from the symbols (the caller's
\* `symbols` argument), the empty list excluded.
SymbolLists ==
    {SelectSeqIn(SubSeq(SymbolNames, 1, MaxSyms), S) : S \in (SUBSET Symbols) \ {{}}}

\* --------------------------------------------------- price provider ----
\* The closing prices the market fixture quotes.  Two price levels whose
\* ratios (4/5, 5/4) give the exact returns -1/5 and +1/4.
PriceLevels == {4, 5}
RetDen == 4 * 5

\* Close of symbol s on date d in the fixture: A alternates, B is flat,
\* C rises once, the others move every second date.
Close(s, d) ==
    CASE SymIdx(s) = 1 -> 4 + (d % 2)
      [] SymIdx(s) = 2 -> 4
      [] SymIdx(s) = 3 -> IF d >= 2 THEN 5 ELSE 4
      [] OTHER -> 4 + ((d \div 2) % 2)

\* What stock_service.get_historical_data(symbol)["Close"] can answer: the
\* fixture's closes on any subset of the dates (the empty series when the
\* provider has nothing for the symbol).
Series(s, present) == [d \in present |-> Close(s, d)]
IsEmptySeries(h) == DOMAIN h = {}

\* All answers of the provider to one call's fetch loop.
Responses(syms) ==
    {[s \in Range(syms) |-> Series(s, present[s])] :
        present \in [Range(syms) -> SUBSET Dates]}

\* ------------------------------------------------- returns matrix ------
\* A DataFrame: columns (in insertion order), index (dates, ascending) and
\* the cells  val[<<date, column>>]  (<< >> is NaN).
EmptyDF == [columns |-> << >>, index |-> << >>, val |-> << >>]

\* Mutant of DfEmpty: only a frame without columns counts as empty.
DfEmptyColumnsOnly(df) == Len(df.columns) = 0

\* DataFrame.empty: an axis of length 0.
DfEmpty(df) == Len(df.columns) = 0 \/ Len(df.index) = 0

\* pd.DataFrame(prices): outer join of the series on the date index.
FrameOf(cols, prices) ==
    LET idx == SortedSeq(UNION {DOMAIN prices[s] : s \in Range(cols)})
    IN [columns |-> cols,
        index   |-> idx,
        val     |-> [c \in Range(idx) \X Range(cols) |->
                        IF c[1] \in DOMAIN prices[c[2]]
                        THEN << prices[c[2]][c[1]] >> ELSE << >>]]

\* Mutant of DropNa: dropna(how="all"), which keeps a row as soon as one
\* of its cells has a value.
DropNaHowAll(df) ==
    LET keep == {d \in Range(df.index) :
                    \E s \in Range(df.columns) : df.val[<<d, s>>] # << >>}
        idx == SelectSeqIn(df.index, keep)
    IN [columns |-> df.columns,
        index   |-> idx,
        val     |-> [c \in Range(idx) \X Range(df.columns) |-> df.val[c]]]

\* DataFrame.dropna(): keep the rows with no NaN cell.
DropNa(df) ==
    LET keep == {d \in Range(df.index) :
                    \A s \in Range(df.columns) : df.val[<<d, s>>] # << >>}
        idx == SelectSeqIn(df.index, keep)
    IN [columns |-> df.columns,
        index   |-> idx,
        val     |-> [c \in Range(idx) \X Range(df.columns) |-> df.val[c]]]

\* One cell of pct_change: price / previous price - 1, in 1/RetDen.
PctCell(prev, cur) ==
    IF prev = << >> \/ cur = << >> THEN << >>
    ELSE << ((cur[1] - prev[1]) * RetDen) \div prev[1] >>

\* DataFrame.pct_change(): the first row is NaN.
PctChange(df) ==
    [columns |-> df.columns,
     index   |-> df.index,
     val     |-> [c \in Range(df.index) \X Range(df.columns) |->
                    LET i == CHOOSE k \in 1..Len(df.index) : df.index[k] = c[1]
                    IN IF i = 1 THEN << >>
                       ELSE PctCell(df.val[<<df.index[i - 1], c[2]>>], df.val[c])]]

\* OptimizerService._get_returns_matrix
GetReturnsMatrix(syms, resp) ==
    LET kept   == {s \in Range(syms) : ~IsEmptySeries(resp[s])}
        cols   == SelectSeqIn(syms, kept)
        prices == [s \in kept |-> resp[s]]
    IN IF kept = {} THEN EmptyDF
       ELSE DropNa(PctChange(DropNa(FrameOf(cols, prices))))

\* ------------------------------------------------------ optimizer ------
RiskProfiles == {"conservative", "moderate", "aggressive", "ultra_aggressive"}

\* OptimizerService.RISK_LIMITS, in percent.
RISK_LIMITS ==
    [p \in RiskProfiles |->
        CASE p = "conservative"     -> [max_volatility |-> 10, max_single |-> 15]
          [] p = "moderate"         -> [max_volatility |-> 20, max_single |-> 25]
          [] p = "aggressive"       -> [max_volatility |-> 35, max_single |-> 35]
          [] p = "ultra_aggressive" -> [max_volatility |-> 50, max_single |-> 50]]

\* The min_weight arguments tried, in percent: the default 0.02 and a high
\* floor 0.40.
MinWeights == {2, 40}

\* Days per year of the annualisation (returns_df.cov() * 252).
TradingDays == 252

Column(df, s) == [i \in 1..Len(df.index) |-> df.val[<<df.index[i], s>>][1]]

RECURSIVE DotSeq(_, _)
DotSeq(a, b) == IF a = << >> THEN 0 ELSE Head(a) * Head(b) + DotSeq(Tail(a), Tail(b))

\* returns_df.cov() is NaN with fewer than two rows (sample covariance).
CovIsNaN(df) == Len(df.index) < 2

\* T(T-1) * RetDen^2 times the sample covariance of columns s and t.
CovNum(df, s, t) ==
    Len(df.index) * DotSeq(Column(df, s), Column(df, t))
        - SumSeq(Column(df, s)) * SumSeq(Column(df, t))

\* w' Cov w for the integer vector w over the columns, times T(T-1) RetDen^2.
QuadForm(df, w) ==
    LET n == Len(df.columns)
        row(i) == [j \in 1..n |-> w[i] * w[j] * CovNum(df, df.columns[i], df.columns[j])]
    IN SumSeq([i \in 1..n |-> SumSeq(row(i))])

\* sqrt(w' Cov w * 252) <= vnum / vden  for the weights  wnum[i] / wden :
\*   252 * Q * vden^2  <=  vnum^2 * wden^2 * T(T-1) * RetDen^2.
VolWithin(df, wnum, wden, vnum, vden) ==
    LET g == GCD(vden, wden)
        T == Len(df.index)
        A == TradingDays * (vden \div g) * (vden \div g)
        B == vnum * vnum * (wden \div g) * (wden \div g) * T * (T - 1) * RetDen * RetDen
    IN QuadForm(df, wnum) <= B \div A

RECURSIVE BoxVectors(_, _, _, _)
\* The vectors of n whole percents within [lo, hi] that sum to total, every
\* entry but the last taken at a bound or at a multiple of ten.
BoxVectors(n, total, lo, hi) ==
    IF n = 1 THEN (IF lo <= total /\ total <= hi THEN {<< total >>} ELSE {})
    ELSE UNION {{<< v >> \o t : t \in BoxVectors(n - 1, total - v, lo, hi)} :
                   v \in {u \in lo..hi : u = lo \/ u = hi \/ u % 10 = 0}}

\* scipy.optimize.minimize(method="SLSQP", bounds, constraints): it may
\* always report failure; when it reports success, result.x lies in the
\* box, sums to 1 and meets the volatility constraint (which cannot be
\* judged when the covariance is NaN).
SolverOutcomes(df, n, lo, hi, max_volatility) ==
    {[success |-> FALSE, x |-> << >>]}
    \cup {[success |-> TRUE, x |-> x] :
            x \in {v \in BoxVectors(n, 100, lo, hi) :
                      CovIsNaN(df) \/ VolWithin(df, v, 100, max_volatility, 100)}}

\* round(num / den, 4) in units of 1e-4 (round half to even).
Round4(num, den) ==
    LET q == (10000 * num) \div den
        r == (10000 * num) % den
    IN IF 2 * r > den \/ (2 * r = den /\ q % 2 = 1) THEN q + 1 ELSE q

\* Mutant of ClearsFloor: the floor is not applied.
FloorIgnored(num, den, mw) == TRUE

\* Line 143: weight >= min_weight, for weight = num / den and min_weight in
\* percent.
ClearsFloor(num, den, mw) == 100 * num >= mw * den

\* Lines 141-144: the symbols kept in weights_dict with their rounded
\* weights.
WeightsDict(syms, wnum, wden, mw) ==
    LET kept == {i \in 1..Len(syms) : ClearsFloor(wnum[i], wden, mw)}
    IN [s \in {syms[i] : i \in kept} |->
            Round4(wnum[CHOOSE i \in kept : syms[i] = s], wden)]

\* Lines 123-130: the solver's vector, or the equal-weight vector when it
\* failed, divided by its sum.
OptimalWeights(n, sol) ==
    LET v == IF sol.success THEN sol.x ELSE [i \in 1..n |-> 1]
    IN [num |-> v, den |-> SumSeq(v)]

\* Mutant of SolverRaises: the call is also refused when the box cannot hold
\* a vector that sums to 1.
SolverRaisesWhenInfeasible(df, n, lo, hi) ==
    Len(df.columns) # n \/ lo > hi \/ n * hi < 100 \/ n * lo > 100

\* Line 114 raises ValueError when the objective multiplies mean_returns
\* (one entry per column) by a vector of len(symbols) entries of another
\* length, or when a lower bound exceeds its upper bound.
SolverRaises(df, n, lo, hi) == Len(df.columns) # n \/ lo > hi

\* ------------------------------------------------------- backtest ------
\* Number of trading days of the backtest window.
MaxDay == 4
\* Weights of a portfolio are whole multiples of 1 / WeightUnits.
WeightUnits == 4

\* Calendar of 2024, a date being its day of the year (1 = Monday 1 Jan).
\* DatetimeIndex.dayofweek: Monday is 0.
DayOfWeek(d) == (d - 1) % 7
\* The first days of the months of 2024.
MonthStarts == {1, 32, 61, 92, 122, 153, 183, 214, 245, 275, 306, 336}
\* DatetimeIndex.is_month_start
IsMonthStart(d) == d \in MonthStarts
\* DatetimeIndex.is_quarter_start
IsQuarterStart(d) == d \in {1, 92, 183, 275}

\* The window: the first MaxDay weekdays from Thursday 28 March 2024 on
\* (28 and 29 March, then 1, 2, ... April).
WindowStart == 31 + 29 + 28
BusinessDays ==
    SubSeq(SortedSeq({d \in WindowStart..(WindowStart + 2 * MaxDay + 2) : DayOfWeek(d) < 5}),
           1, MaxDay)
DayPos(d) == CHOOSE k \in 1..MaxDay : BusinessDays[k] = d

\* The portfolios backtested hold A (alternating closes) and B (flat).
PortSyms == {"A", "B"}
PortLists == {SelectSeqIn(SubSeq(SymbolNames, 1, 2), S) : S \in (SUBSET PortSyms) \ {{}}}

\* The aligned price frames _get_price_data can hand over: the fixture's
\* closes of some symbols on some trading days of the window, or the empty
\* frame.
PriceFrames ==
    {EmptyDF} \cup
    {DropNa(FrameOf(cols, [s \in Range(cols) |->
                              [d \in days |-> Close(s, DayPos(d))]])) :
        cols \in PortLists, days \in (SUBSET Range(BusinessDays)) \ {{}}}

\* The weight maps tried: positive multiples of 1 / WeightUnits that sum to
\* 1, over one or both symbols.
WeightMaps ==
    {w \in UNION {[K -> 1..WeightUnits] : K \in (SUBSET PortSyms) \ {{}}} :
        SumFn(w) = WeightUnits}

Frequencies == {"daily", "weekly", "monthly", "quarterly", "yearly"}

\* DataFrame.fillna(0)
FillNa0(df) ==
    [columns |-> df.columns,
     index   |-> df.index,
     val     |-> [c \in DOMAIN df.val |-> IF df.val[c] = << >> THEN << 0 >> ELSE df.val[c]]]

\* Lines 217-227: the rebalance mask over the index of returns.
RebalanceMask(index, freq) ==
    [i \in 1..Len(index) |->
        CASE freq = "daily"     -> TRUE
          [] freq = "weekly"    -> DayOfWeek(index[i]) = 0
          [] freq = "monthly"   -> IsMonthStart(index[i])
          [] freq = "quarterly" -> IsQuarterStart(index[i])
          [] OTHER              -> TRUE]

\* A fraction in lowest terms.
Reduce(q) == LET g == GCD(q[1], q[2]) IN << q[1] \div g, q[2] \div g >>

\* (a / b) * (c / d) in lowest terms, cancelling before multiplying.
RatMul(x, y) ==
    LET a == Reduce(<< x[1], y[2] >>)
        b == Reduce(<< y[1], x[2] >>)
    IN << a[1] * b[1], a[2] * b[2] >>

\* daily_returns.get(symbol, 0), in 1/RetDen.
ReturnOf(rets, d, s) == IF <<d, s>> \in DOMAIN rets.val THEN rets.val[<<d, s>>][1] ELSE 0

\* Lines 236-239: sum of current_weights[s] * daily_returns[s] over the keys
\* of weights, in 1 / (WeightUnits * RetDen).
DailyPortReturn(rets, d, cw, w) ==
    SumFn([s \in DOMAIN w |-> (IF s \in DOMAIN cw THEN cw[s] ELSE 0) * ReturnOf(rets, d, s)])

\* Mutant of WeightsAfter: without a rebalance the position is left in cash.
WeightsAfterInCash(cw, w, flag) == IF flag THEN w ELSE [s \in DOMAIN w |-> 0]

\* Line 246: the weights in force after a row, given the rebalance flag.
WeightsAfter(cw, w, flag) == IF flag THEN w ELSE cw

\* ------------------------------------------------- run_backtest --------
\* In run_backtest a float is the exact fraction << n, d >> (d > 0, lowest
\* terms) it approximates.  A statistic that goes through a square root or
\* a power is kept as its kind:  "nan", "zero" (the literal 0 of an else
\* branch), "one" (the literal 1) or "finite" (a finite float the formula
\* computed).  Rounding errors of float arithmetic are not modelled.
RatAdd(x, y) == Reduce(<< x[1] * y[2] + y[1] * x[2], x[2] * y[2] >>)
RatLess(x, y) == x[1] * y[2] < y[1] * x[2]
RatDiv(x, y) == RatMul(x, << y[2], y[1] >>)

RECURSIVE RatSum(_)
\* The sum of the values (fractions) of a function with a finite domain.
RatSum(f) ==
    IF DOMAIN f = {} THEN << 0, 1 >>
    ELSE LET k == CHOOSE k \in DOMAIN f : TRUE
         IN RatAdd(f[k], RatSum([j \in (DOMAIN f) \ {k} |-> f[j]]))

RECURSIVE Scaled(_, _, _)
\* << floor(n * 10^k / d), remainder >> for n >= 0, one digit at a time.
Scaled(n, d, k) ==
    IF k = 0 THEN << n \div d, n % d >>
    ELSE LET p == Scaled(n, d, k - 1)
         IN << 10 * p[1] + (10 * p[2]) \div d, (10 * p[2]) % d >>

\* round(x * 10^j, 2) for x = q[1] / q[2] and k = j + 2, in units of 0.01
\* (round half to even, the sign carried over; -0.0 is 0).
RoundTo(q, k) ==
    LET p == Scaled(Abs(q[1]), q[2], k)
        m == IF 2 * p[2] > q[2] \/ (2 * p[2] = q[2] /\ p[1] % 2 = 1)
             THEN p[1] + 1 ELSE p[1]
    IN IF q[1] < 0 THEN 0 - m ELSE m

\* ------------------------------------- optimize: metrics, allocations --
\* int(n / d) for d > 0: the quotient truncated toward zero.
IntDiv(n, d) == IF n >= 0 THEN n \div d ELSE 0 - ((0 - n) \div d)

\* OptimizerService.RISK_FREE_RATE, as a fraction.
RISK_FREE_RATE == << 5, 100 >>

\* Line 133: port_return = sum(mean_returns * optimal_weights), as the
\* fraction << n, d >> (d > 0, not reduced), for the weights wnum[i] / wden.
PortReturn(df, wnum, wden) ==
    << TradingDays * SumSeq([i \in 1..Len(df.columns) |->
                               wnum[i] * SumSeq(Column(df, df.columns[i]))]),
       wden * Len(df.index) * RetDen >>

\* Line 165: round(port_return * 100, 2), in units of 0.01 (the mean of no
\* rows is NaN).
ExpectedReturn(df, wnum, wden) ==
    IF Len(df.index) = 0 THEN "nan" ELSE RoundTo(PortReturn(df, wnum, wden), 4)

\* Lines 134 and 166: port_vol is NaN when the covariance is, else zero or
\* positive.
PortVol(df, wnum) ==
    IF CovIsNaN(df) THEN "nan"
    ELSE IF QuadForm(df, wnum) = 0 THEN "zero" ELSE "pos"

\* Lines 135 and 167: (port_return - RISK_FREE_RATE) / port_vol; numpy
\* divides by zero without raising.
Sharpe(df, wnum, wden) ==
    LET r      == PortReturn(df, wnum, wden)
        excess == r[1] * RISK_FREE_RATE[2] - RISK_FREE_RATE[1] * r[2]
        vol    == PortVol(df, wnum)
    IN CASE vol = "nan"  -> "nan"
         [] vol = "zero" -> IF excess = 0 THEN "nan" ELSE "inf"
         [] OTHER        -> IF excess = 0 THEN "zero" ELSE "finite"

\* Mutant of Shares: the share count is rounded up.
SharesRoundedUp(amount, num, den, price) ==
    IF price > 0 THEN (amount * num + den * price - 1) \div (den * price) ELSE 0

\* Lines 148-149: int(investment_amount * weight / price) if price > 0
\* else 0, for weight = num / den.
Shares(amount, num, den, price) ==
    IF price > 0 THEN IntDiv(amount * num, den * price) ELSE 0

\* Lines 151-158: the allocation of the i-th symbol (weight in units of
\* 0.01 percent, amount and price in cents).
Allocation(syms, i, wnum, wden, amount, quotes) ==
    LET price == IF syms[i] \in DOMAIN quotes THEN quotes[syms[i]] ELSE 0
    IN [symbol |-> syms[i],
        weight |-> Round4(wnum[i], wden),
        amount |-> RoundTo(<< amount * wnum[i], wden >>, 2),
        shares |-> Shares(amount, wnum[i], wden, price),
        price  |-> 100 * price]

\* The place of x in a list sorted by weight, descending: before the first
\* entry whose weight is not above its own.
InsertByWeight(x, sorted) ==
    LET before == {k \in 1..Len(sorted) :
                      \A j \in 1..k : sorted[j].weight > x.weight}
    IN SubSeq(sorted, 1, Cardinality(before)) \o << x >>
         \o SubSeq(sorted, Cardinality(before) + 1, Len(sorted))

RECURSIVE SortByWeight(_)
\* Line 161: allocations.sort(key=weight, reverse=True), a stable sort.
SortByWeight(q) ==
    IF q = << >> THEN << >> ELSE InsertByWeight(Head(q), SortByWeight(Tail(q)))

RECURSIVE AllocationsFrom(_, _, _, _, _, _, _)
\* Lines 141-158: the allocations appended from the i-th symbol on.
AllocationsFrom(syms, i, wnum, wden, mw, amount, quotes) ==
    IF i > Len(syms) THEN << >>
    ELSE (IF ClearsFloor(wnum[i], wden, mw)
          THEN << Allocation(syms, i, wnum, wden, amount, quotes) >> ELSE << >>)
         \o AllocationsFrom(syms, i + 1, wnum, wden, mw, amount, quotes)

\* Lines 141-161: the allocation list of the result.
Allocations(syms, wnum, wden, mw, amount, quotes) ==
    SortByWeight(AllocationsFrom(syms, 1, wnum, wden, mw, amount, quotes))

\* Line 63: the default initial_value.
InitialValue == 10000
\* Line 53 and line 64: the default benchmark.
DEFAULT_BENCHMARK == "SPY"
\* A symbol quoted at a high price that moves by one tick a day.
TickSymbol == "T"
TickPrice == 25000

\* Close of symbol s on the k-th trading day of the window: A and B as in
\* the optimizer's fixture, T one tick down on the second day and one tick
\* up on each later day, the benchmark flat for three days and moving
\* afterwards.
ClosePrice(s, k) ==
    CASE s = TickSymbol        -> IF k = 1 THEN TickPrice ELSE TickPrice + k - 3
      [] s = DEFAULT_BENCHMARK -> IF k <= 3 THEN 5 ELSE 4 + (k % 2)
      [] OTHER                 -> Close(s, k)

\* What get_historical_data(symbol)["Close"] answers when the provider has
\* closes for the trading days at the positions ks of the window.
History(s, ks) == [d \in {BusinessDays[k] : k \in ks} |-> ClosePrice(s, DayPos(d))]

\* The day sets a provider's history can cover: nothing, or the window's
\* trading days from some day on or up to some day.
Coverages ==
    {{}} \cup {i..MaxDay : i \in 1..MaxDay} \cup {1..j : j \in 1..MaxDay}

\* Line 198: df.loc[start_date:end_date]
Loc(df, start, end) ==
    LET idx == SelectSeqIn(df.index, {d \in Range(df.index) : start <= d /\ d <= end})
    IN [columns |-> df.columns,
        index   |-> idx,
        val     |-> [c \in Range(idx) \X Range(df.columns) |-> df.val[c]]]

\* BacktestService._get_price_data, for the provider's answers hist.
GetPriceData(syms, hist, start, end) ==
    LET kept   == {s \in Range(syms) : ~IsEmptySeries(hist[s])}
        cols   == SelectSeqIn(syms, kept)
        prices == [s \in kept |-> hist[s]]
    IN IF kept = {} THEN EmptyDF
       ELSE DropNa(Loc(FrameOf(cols, prices), start, end))

\* x < y for positive fractions, by the quotient in lowest terms.
RatLessPos(x, y) == LET r == RatDiv(x, y) IN r[1] < r[2]

\* Lines 88-89: the weights divided by their sum (the caller's raw weights
\* are whole numbers).  The division fails on a zero sum.
NormalizeRaises(raw) == DOMAIN raw # {} /\ SumFn(raw) = 0
Normalize(raw) == [k \in DOMAIN raw |-> Reduce(<< raw[k], SumFn(raw) >>)]

\* Line 215: price_data.pct_change().fillna(0), exactly.
PctChangeFill0(df) ==
    [c \in Range(df.index) \X Range(df.columns) |->
        LET i == CHOOSE k \in 1..Len(df.index) : df.index[k] = c[1]
        IN IF i = 1 THEN << 0, 1 >>
           ELSE LET prev == df.val[<<df.index[i - 1], c[2]>>][1]
                    cur  == df.val[c][1]
                IN Reduce(<< cur - prev, prev >>)]

\* Mutant of DailyReturn: the weight of the symbols without a return is
\* spread over the others.
DailyReturnRedistributed(rets, d, cw, w) ==
    LET with  == {s \in DOMAIN w : s \in DOMAIN cw /\ <<d, s>> \in DOMAIN rets}
        total == RatSum([s \in with |-> cw[s]])
        sum   == RatSum([s \in with |-> RatMul(cw[s], rets[<<d, s>>])])
    IN IF with = {} \/ total[1] = 0 THEN << 0, 1 >> ELSE RatDiv(sum, total)

\* Lines 236-239, exactly: current_weights.get(symbol, 0) times
\* daily_returns.get(symbol, 0), summed over the keys of weights.
DailyReturn(rets, d, cw, w) ==
    RatSum([s \in DOMAIN w |->
              IF s \in DOMAIN cw /\ <<d, s>> \in DOMAIN rets
              THEN RatMul(cw[s], rets[<<d, s>>]) ELSE << 0, 1 >>])

RECURSIVE SimulateFrom(_, _, _, _, _, _, _)
\* Lines 234-246: the values appended from row i on, as fractions of
\* initial_value.
SimulateFrom(index, rets, w, mask, i, value, cw) ==
    IF i > Len(index) THEN << >>
    ELSE LET v == RatMul(value, RatAdd(<< 1, 1 >>, DailyReturn(rets, index[i], cw, w)))
         IN << v >> \o SimulateFrom(index, rets, w, mask, i + 1, v,
                                    WeightsAfter(cw, w, mask[i]))

\* Mutant of CalculatePortfolioValues: an empty frame gives the initial
\* value alone.
CalculateOrInitialValue(df, w, freq) ==
    IF DfEmpty(df) THEN << << 1, 1 >> >>
    ELSE SimulateFrom(df.index, PctChangeFill0(df), w,
                      RebalanceMask(df.index, freq), 1, << 1, 1 >>, w)

\* BacktestService._calculate_portfolio_values: the values of the returned
\* Series (its index is that of price_data), as fractions of initial_value.
CalculatePortfolioValues(df, w, freq) ==
    IF DfEmpty(df) THEN << >>
    ELSE SimulateFrom(df.index, PctChangeFill0(df), w,
                      RebalanceMask(df.index, freq), 1, << 1, 1 >>, w)

\* Series.pct_change().dropna() of a series of positive values.
SeriesReturns(vals) ==
    [i \in 1..(Len(vals) - 1) |-> RatAdd(RatDiv(vals[i + 1], vals[i]), << -1, 1 >>)]

\* Series.std() / Series.var() (ddof = 1), as a kind: NaN under two
\* observations, zero when all are equal, positive otherwise.
StdKind(xs) ==
    IF Len(xs) < 2 THEN "nan"
    ELSE IF \A i \in 1..Len(xs) : xs[i] = xs[1] THEN "zero" ELSE "pos"

\* Mutant of Downside: no filter, every return counts as downside.
EveryReturn(xs) == xs

\* Line 131: returns[returns < 0]
Downside(xs) == SelectSeq(xs, LAMBDA x : x[1] < 0)

\* Mutant of CumMax: the first value instead of the running maximum.
FirstValue(vals, i) == vals[1]

\* Line 136: portfolio_values.cummax() at position i.
CumMax(vals, i) ==
    vals[CHOOSE j \in 1..i : \A k \in 1..i : ~RatLessPos(vals[j], vals[k])]

\* Lines 137-138: drawdown.min(), as a fraction (<= 0).
MinDrawdown(vals) ==
    LET ratio == [i \in 1..Len(vals) |-> RatDiv(vals[i], CumMax(vals, i))]
        m == CHOOSE j \in 1..Len(vals) :
                \A k \in 1..Len(vals) : ~RatLessPos(ratio[k], ratio[j])
    IN RatAdd(ratio[m], << -1, 1 >>)

\* start_date / end_date left to their default None.
NoDate == 0

\* The BacktestResult of a call that raised or has not been made.
NoStatistics ==
    [trading_days |-> 0, total_return |-> 0, cagr |-> "zero",
     volatility |-> "zero", sharpe_ratio |-> "zero", sortino_ratio |-> "zero",
     max_drawdown |-> 0, benchmark_return |-> 0, alpha |-> "zero",
     beta |-> "zero", equity_curve |-> << >>]

\* Mutant of AlphaBetaDefault: the pair the other way round.
BetaAlphaDefault == << "one", "zero" >>

\* Line 148: alpha, beta = 0, 1
AlphaBetaDefault == << "zero", "one" >>

\* Lines 111-174: the BacktestResult for the portfolio values pv (index
\* pidx) and the benchmark values bv (index bidx), both non-empty.  Rounded
\* fields are in units of 0.01; round() keeps the kind of a statistic.
Statistics(pidx, pv, bidx, bv) ==
    LET rets  == SeriesReturns(pv)
        brets == SeriesReturns(bv)
        std   == StdKind(rets)
        dstd  == StdKind(Downside(rets))
        same  == Len(rets) = Len(brets)
        bvar  == StdKind(brets)
        beta  == IF same THEN (IF bvar = "pos" THEN "finite" ELSE "one")
                 ELSE AlphaBetaDefault[2]
        alpha == IF same THEN (IF Len(rets) = 0 THEN "nan" ELSE "finite")
                 ELSE AlphaBetaDefault[1]
    IN [trading_days     |-> Len(pv),
        total_return     |-> RoundTo(RatAdd(RatDiv(pv[Len(pv)], pv[1]), << -1, 1 >>), 4),
        cagr             |-> "finite",
        volatility       |-> IF std = "nan" THEN "nan" ELSE "finite",
        sharpe_ratio     |-> IF std = "pos" THEN "finite" ELSE "zero",
        sortino_ratio    |-> IF dstd = "pos" THEN "finite" ELSE "zero",
        max_drawdown     |-> RoundTo(MinDrawdown(pv), 4),
        benchmark_return |-> RoundTo(RatAdd(RatDiv(bv[Len(bv)], bv[1]), << -1, 1 >>), 4),
        alpha            |-> alpha,
        beta             |-> beta,
        equity_curve     |->
            [i \in 1..Len(pidx) |->
                [date      |-> pidx[i],
                 portfolio |-> RoundTo(<< InitialValue * pv[i][1], pv[i][2] >>, 2),
                 benchmark |->
                    IF pidx[i] \in Range(bidx)
                    THEN LET j == CHOOSE k \in 1..Len(bidx) : bidx[k] = pidx[i]
                         IN RoundTo(<< InitialValue * bv[j][1], bv[j][2] >>, 2)
                    ELSE 100 * InitialValue]]]

\* What a call of run_backtest leaves: how it ended, the normalised
\* weights, the two value series and the result.
Raised(e) ==
    [outcome |-> e, start_date |-> NoDate, end_date |-> NoDate,
     portfolio |-> << >>, portfolio_values |-> << >>,
     benchmark_values |-> << >>, result |-> NoStatistics]

\* The order of list(portfolio.keys()).
KeyOrder == << "A", "B", TickSymbol >>

\* Mutant of EndDate: the clock's reading whatever the caller passed.
EndDateFromClock(req, t) == t

\* Lines 82-85: the window's bounds, the defaults being today and a year
\* before.
EndDate(req, t) == IF req.end_date = NoDate THEN t ELSE req.end_date
StartDate(req, t) == IF req.start_date = NoDate THEN t - 365 ELSE req.start_date

\* BacktestService.run_backtest for the request req, the provider's
\* histories hist and the clock reading t (datetime.now()).  Next to the
\* outcome the record keeps the call's locals: the window's bounds, the
\* normalized weights and the two value series, as far as the call got.
run_backtest(req, hist, t) ==
    LET end_date   == EndDate(req, t)
        start_date == StartDate(req, t)
    IN IF NormalizeRaises(req.portfolio)
       THEN [Raised("ZeroDivisionError") EXCEPT !.start_date = start_date,
                                                !.end_date = end_date]
       ELSE
        LET portfolio  == Normalize(req.portfolio)
            syms       == SelectSeqIn(KeyOrder, DOMAIN portfolio)
            price_data == GetPriceData(syms, hist, start_date, end_date)
        IN IF DfEmpty(price_data)
           THEN [Raised("ValueError") EXCEPT !.start_date = start_date,
                                             !.end_date = end_date,
                                             !.portfolio = portfolio]
           ELSE
            LET benchmark_data == GetPriceData(<< DEFAULT_BENCHMARK >>, hist,
                                               start_date, end_date)
                pv == CalculatePortfolioValues(price_data, portfolio,
                                               req.rebalance_frequency)
                bv == CalculatePortfolioValues(benchmark_data,
                                               [s \in {DEFAULT_BENCHMARK} |-> << 1, 1 >>],
                                               "daily")
            IN IF bv = << >>
               THEN [Raised("IndexError") EXCEPT !.start_date = start_date,
                                                 !.end_date = end_date,
                                                 !.portfolio = portfolio,
                                                 !.portfolio_values = pv]
               ELSE [outcome          |-> "ok",
                     start_date       |-> start_date,
                     end_date         |-> end_date,
                     portfolio        |-> portfolio,
                     portfolio_values |-> pv,
                     benchmark_values |-> bv,
                     result |-> Statistics(price_data.index, pv,
                                           benchmark_data.index, bv)]

\* Mutant of Caught: only the engine's own ValueError is caught.
CaughtValueError(e) == e = "ValueError"

\* Line 266: except Exception, which every exception run_backtest raises
\* is an instance of.
Caught(e) == e \in {"ZeroDivisionError", "ValueError", "IndexError"}

\* Lines 262-264: the call run_backtest(portfolio, start_date, end_date,
\* initial_value), benchmark and rebalance_frequency at their defaults.
StrategyRequest(req, name) ==
    [portfolio |-> req.strategies[name], start_date |-> req.start_date,
     end_date |-> req.end_date, rebalance_frequency |-> "monthly"]

RECURSIVE CompareFrom(_, _, _, _, _, _)
\* Lines 260-269: the loop over strategies.items() from the i-th name on.
CompareFrom(names, req, hist, t, i, results) ==
    IF i > Len(names) THEN [outcome |-> "ok", results |-> results]
    ELSE LET run == run_backtest(StrategyRequest(req, names[i]), hist, t)
         IN IF run.outcome = "ok"
            THEN CompareFrom(names, req, hist, t, i + 1,
                             results @@ (names[i] :> run.result))
            ELSE IF Caught(run.outcome)
            THEN CompareFrom(names, req, hist, t, i + 1,
                             results @@ (names[i] :> [error |-> run.outcome]))
            ELSE [outcome |-> run.outcome, results |-> << >>]

\* The names of the strategies, in the order of the caller's dict.
StrategyNames == << "s1", "s2", "s3", "s4" >>

\* BacktestService.compare_strategies
compare_strategies(req, hist, t) ==
    CompareFrom(SelectSeqIn(StrategyNames, DOMAIN req.strategies), req, hist, t, 1, << >>)

\* ---------------------------------------------- rebalance_portfolio ----
\* Amounts are whole dollars, a target weight is a whole multiple of
\* 1 / WeightUnits, so a dollar delta is a whole multiple of 1 / WeightUnits
\* dollar: diff4 below is the delta times WeightUnits.

\* Line 276: the dollar threshold under which no trade is made.
MinTrade == 50

\* stock_info.get("current_price", 0) of a symbol the provider may not
\* price.
PriceOf(current_price, s) == IF s \in DOMAIN current_price THEN current_price[s] ELSE 0

\* Lines 256-263: the value of every holding and their total.
CurrentValues(holdings, current_price) ==
    [s \in DOMAIN holdings |-> holdings[s] * PriceOf(current_price, s)]

\* Mutant of Diff4: only the holdings that have a target count in the total.
Diff4TargetsOnly(holdings, targets, amount, current_price, s) ==
    LET values == CurrentValues(holdings, current_price)
        total_amount ==
            SumFn([t \in DOMAIN values \cap DOMAIN targets |-> values[t]]) + amount
    IN total_amount * targets[s]
         - WeightUnits * (IF s \in DOMAIN values THEN values[s] ELSE 0)

\* Lines 267-269: target_value - current_value of symbol s, times
\* WeightUnits.
Diff4(holdings, targets, amount, current_price, s) ==
    LET values == CurrentValues(holdings, current_price)
        total_amount == SumFn(values) + amount
    IN total_amount * targets[s]
         - WeightUnits * (IF s \in DOMAIN values THEN values[s] ELSE 0)

\* Mutant of WorthTrading: a delta of exactly the threshold is traded too.
ReachesThreshold(diff4, price) == Abs(diff4) >= MinTrade * WeightUnits /\ price > 0

\* Mutant of WorthTrading: any non-zero delta is traded.
AnyDifference(diff4, price) == diff4 # 0 /\ price > 0

\* Line 276: abs(diff) > 50 and price > 0
WorthTrading(diff4, price) == Abs(diff4) > MinTrade * WeightUnits /\ price > 0

\* Mutant of TradeOf: the share count is rounded away from zero.
TradeOfRoundedUp(s, diff4, price) ==
    [symbol |-> s,
     action |-> IF diff4 > 0 THEN "BUY" ELSE "SELL",
     shares |-> (Abs(diff4) + WeightUnits * price - 1) \div (WeightUnits * price),
     amount |-> RoundTo(<< Abs(diff4), WeightUnits >>, 2),
     price  |-> 100 * price]

\* Lines 277-284: the trade of symbol s for the delta diff4 / WeightUnits
\* (int() truncates toward zero; amount and price are in cents).
TradeOf(s, diff4, price) ==
    [symbol |-> s,
     action |-> IF diff4 > 0 THEN "BUY" ELSE "SELL",
     shares |-> Abs(diff4) \div (WeightUnits * price),
     amount |-> RoundTo(<< Abs(diff4), WeightUnits >>, 2),
     price  |-> 100 * price]

RECURSIVE TradesFrom(_, _, _, _, _, _)
\* Lines 266-284: the loop over target_weights.items() from the i-th
\* symbol on.
TradesFrom(order, holdings, targets, amount, current_price, i) ==
    IF i > Len(order) THEN << >>
    ELSE LET s     == order[i]
             diff4 == Diff4(holdings, targets, amount, current_price, s)
             price == PriceOf(current_price, s)
         IN (IF WorthTrading(diff4, price) THEN << TradeOf(s, diff4, price) >> ELSE << >>)
            \o TradesFrom(order, holdings, targets, amount, current_price, i + 1)

\* OptimizerService.rebalance_portfolio
rebalance_portfolio(holdings, targets, amount, current_price) ==
    TradesFrom(SelectSeqIn(KeyOrder, DOMAIN targets), holdings, targets, amount,
               current_price, 1)

\* ------------------------------------------- get_efficient_frontier ----
\* np.random is numpy's process-wide generator.  Its state is the position
\* rng in a stream of draws; a draw (np.random.random(n_assets) divided by
\* its sum, lines 216-217) is the weight u / WeightUnits of the first asset,
\* the rest going to the second one.
RandomStream == << 4, 1, 3, 0, 2, 2, 1, 4, 0, 3, 1, 0, 2 >>
StreamLen == Len(RandomStream)
\* The k-th draw of a call that found the generator at rng.
DrawAt(rng, k) == RandomStream[((rng + k - 1) % StreamLen) + 1]
\* The generator's state after a call that drew count times.
Advance(rng, count) == (rng + count) % StreamLen

\* A volatility is << v >>, or << >> for NaN; a comparison with NaN is
\* false.
NaN == << >>
VolLess(a, b) == a # NaN /\ b # NaN /\ a[1] < b[1]

\* Lines 219-226: round(port_return * 100, 2) and round(port_vol * 100, 2) of
\* the portfolio a draw gives, in units of 0.01 (the market fixture of the
\* frontier: two draws tie on volatility, more risk is not always more
\* return).
SampleStats(u) ==
    CASE u = 0 -> [return |->  800, volatility |-> << 2500 >>]
      [] u = 1 -> [return |->  900, volatility |-> << 2000 >>]
      [] u = 2 -> [return |->  700, volatility |-> << 2000 >>]
      [] u = 3 -> [return |-> 1200, volatility |-> << 2200 >>]
      [] u = 4 -> [return |-> -500, volatility |-> << 1800 >>]
      [] OTHER -> [return |-> 1000, volatility |-> << 2500 >>]
\* With one asset every draw is the weight vector [1.0].
SingleStats == [return |-> 600, volatility |-> << 2100 >>]

\* Lines 216-227: one sampled portfolio as appended to results.  The
\* covariance of a single row of returns is NaN, and so are the volatility
\* and the sharpe of every sample then.
SampleOf(df, n_assets, u) ==
    LET st == IF n_assets = 1 THEN SingleStats ELSE SampleStats(u)
    IN [return     |-> st.return,
        volatility |-> IF CovIsNaN(df) THEN NaN ELSE st.volatility,
        sharpe     |-> IF CovIsNaN(df) THEN "nan" ELSE "finite"]

\* The place of x in a list sorted by volatility: behind the leading
\* entries of a smaller volatility.
InsertByVolatility(x, sorted) ==
    LET before == {k \in 1..Len(sorted) :
                      \A j \in 1..k : VolLess(sorted[j].volatility, x.volatility)}
    IN SubSeq(sorted, 1, Cardinality(before)) \o << x >>
         \o SubSeq(sorted, Cardinality(before) + 1, Len(sorted))

RECURSIVE SortByVolatility(_)
\* Line 230: results.sort(key=volatility), a stable sort.
SortByVolatility(q) ==
    IF q = << >> THEN << >>
    ELSE InsertByVolatility(Head(q), SortByVolatility(Tail(q)))

\* Mutant of Improves: a return equal to the best so far is kept too.
NotWorse(ret, max_return) == max_return = << >> \/ ret >= max_return[1]

\* Line 237: r["return"] > max_return, max_return being << >> for
\* -float("inf").
Improves(ret, max_return) == max_return = << >> \/ ret > max_return[1]

RECURSIVE EfficientFrom(_, _, _)
\* Lines 233-239: the scan from the i-th sorted sample on.
EfficientFrom(sorted, i, max_return) ==
    IF i > Len(sorted) THEN << >>
    ELSE IF Improves(sorted[i].return, max_return)
         THEN << sorted[i] >> \o EfficientFrom(sorted, i + 1, << sorted[i].return >>)
         ELSE EfficientFrom(sorted, i + 1, max_return)

\* Samples per requested portfolio (line 215).
SamplesPerPortfolio == 10

\* OptimizerService.get_efficient_frontier for the provider's answers resp
\* and the generator's state rng: how the call ended, the samples in the
\* order they were drawn, the list returned and the number of draws made.
get_efficient_frontier(syms, resp, n_portfolios, rng) ==
    LET df == GetReturnsMatrix(syms, resp)
        n_assets == Len(syms)
        count == n_portfolios * SamplesPerPortfolio
    IN IF DfEmpty(df)
       THEN [outcome |-> "ok", results |-> << >>, frontier |-> << >>, draws |-> 0]
       ELSE IF Len(df.columns) # n_assets
       THEN [outcome |-> "ValueError", results |-> << >>, frontier |-> << >>,
             draws |-> Min({1, count})]
       ELSE LET results   == [k \in 1..count |-> SampleOf(df, n_assets, DrawAt(rng, k))]
                efficient == EfficientFrom(SortByVolatility(results), 1, << >>)
            IN [outcome  |-> "ok",
                results  |-> results,
                frontier |-> SubSeq(efficient, 1, Min({n_portfolios, Len(efficient)})),
                draws    |-> count]

\* ---------------------------------------------------------- state -------
VARIABLES
    pc,               \* where the current call stands
    symbols,          \* the call's symbols argument
    fetched,          \* what the provider answered, per symbol
    returns_df,       \* the returns matrix of the call
    risk_profile,     \* the call's risk_profile argument
    min_weight,       \* the call's min_weight argument, in percent
    solver,           \* result of scipy's minimize
    optimal_weights,  \* the normalised weight vector  num[i] / den
    outcome,          \* "none", "ok" (a result was returned), "ValueError"
    result,           \* the OptimizationResult returned
    price_data,       \* _calculate_portfolio_values: the price frame
    weights,          \* its weights argument, in 1 / WeightUnits
    rebalance_frequency,
    returns,          \* price_data.pct_change().fillna(0)
    rebalance_mask,
    row,              \* number of rows of returns the loop has processed
    current_value,    \* as a fraction <<n, d>> of initial_value
    current_weights,
    portfolio_values  \* the values appended so far

optVars == <<symbols, fetched, returns_df, risk_profile, min_weight, solver,
             optimal_weights, outcome, result>>
btVars == <<price_data, weights, rebalance_frequency, returns, rebalance_mask,
            row, current_value, current_weights, portfolio_values>>
\* run_backtest (backend/services/backtest.py, lines 58-174)
VARIABLES
    request,          \* the caller's arguments (raw weights, dates, frequency)
    history,          \* what the provider has, per symbol: date -> close
    backtest,         \* how the call ended and what it computed
    repeat            \* the same for a second call with the same arguments

runVars == <<request, history, backtest, repeat>>

\* compare_strategies (backend/services/backtest.py, lines 250-269)
VARIABLES
    compare_request,  \* the caller's arguments (strategies, dates)
    now,              \* what datetime.now() reads during the call
    comparison        \* how the call ended and the map it returned

cmpVars == <<compare_request, now, comparison>>

\* rebalance_portfolio (backend/services/optimizer.py, lines 243-286)
VARIABLES
    current_holdings,   \* symbol -> shares
    target_weights,     \* symbol -> weight, in 1 / WeightUnits
    investment_amount,  \* fresh money, in dollars
    current_price,      \* what get_stock_info quotes, in dollars
    trades              \* the list returned

rebVars == <<current_holdings, target_weights, investment_amount, current_price, trades>>

\* get_efficient_frontier (backend/services/optimizer.py, lines 194-241)
VARIABLES
    rng,              \* the state of numpy's process-wide generator
    frontier_call,    \* the call's arguments and how it ended
    results,          \* the samples, in the order they were drawn
    frontier          \* the list returned

frontVars == <<rng, frontier_call, results, frontier>>
otherVars == <<runVars, cmpVars, rebVars, frontVars>>
vars == <<pc, optVars, btVars, otherVars>>

NoSolver == [success |-> FALSE, x |-> << >>]
NoWeights == [num |-> << >>, den |-> 1]
NoResult ==
    [weights |-> << >>, expected_return |-> 0, volatility |-> "zero",
     sharpe_ratio |-> "zero", allocations |-> << >>]

\* No call of run_backtest is under way.
NoRequest ==
    [portfolio |-> << >>, start_date |-> NoDate, end_date |-> NoDate,
     rebalance_frequency |-> "monthly"]

\* No call of compare_strategies is under way.
NoCompareRequest == [strategies |-> << >>, start_date |-> NoDate, end_date |-> NoDate]
NoComparison == [outcome |-> "none", results |-> << >>]

\* No call of get_efficient_frontier is under way.
NoFrontierCall == [symbols |-> << >>, n_portfolios |-> 0, outcome |-> "none"]

Init ==
    /\ pc = "idle"
    /\ symbols = << >>
    /\ fetched = << >>
    /\ returns_df = EmptyDF
    /\ risk_profile = "moderate"
    /\ min_weight = 2
    /\ solver = NoSolver
    /\ optimal_weights = NoWeights
    /\ outcome = "none"
    /\ result = NoResult
    /\ price_data = EmptyDF
    /\ weights = << >>
    /\ rebalance_frequency = "monthly"
    /\ returns = EmptyDF
    /\ rebalance_mask = << >>
    /\ row = 0
    /\ current_value = << 1, 1 >>
    /\ current_weights = << >>
    /\ portfolio_values = << >>
    /\ request = NoRequest
    /\ history = << >>
    /\ backtest = Raised("none")
    /\ repeat = Raised("none")
    /\ compare_request = NoCompareRequest
    /\ now = BusinessDays[MaxDay]
    /\ comparison = NoComparison
    /\ current_holdings = << >>
    /\ target_weights = << >>
    /\ investment_amount = 0
    /\ current_price = << >>
    /\ trades = << >>
    /\ rng = 0
    /\ frontier_call = NoFrontierCall
    /\ results = << >>
    /\ frontier = << >>

\* optimize, line 73: the call to _get_returns_matrix (lines 171-192).
OptimizeFetch ==
    /\ pc = "idle"
    /\ \E syms \in SymbolLists : \E resp \in Responses(syms) :
          /\ symbols' = syms
          /\ fetched' = resp
          /\ returns_df' = GetReturnsMatrix(syms, resp)
    /\ pc' = "opt_matrix"
    /\ UNCHANGED <<risk_profile, min_weight, solver, optimal_weights, outcome, result>>
    /\ UNCHANGED btVars
    /\ UNCHANGED otherVars

\* optimize, lines 75-169, for a solver outcome sol.
OptimizeRest(profile, mw, sol, amount, quotes) ==
    LET n == Len(symbols)
        w == OptimalWeights(n, sol)
    IN /\ risk_profile' = profile
       /\ min_weight' = mw
       /\ solver' = sol
       /\ optimal_weights' = w
       /\ outcome' = "ok"
       /\ result' = [weights         |-> WeightsDict(symbols, w.num, w.den, mw),
                     expected_return |-> ExpectedReturn(returns_df, w.num, w.den),
                     volatility      |-> PortVol(returns_df, w.num),
                     sharpe_ratio    |-> Sharpe(returns_df, w.num, w.den),
                     allocations     |-> Allocations(symbols, w.num, w.den, mw,
                                                     amount, quotes)]

OptimizeRaise(profile, mw) ==
    /\ risk_profile' = profile
    /\ min_weight' = mw
    /\ solver' = NoSolver
    /\ optimal_weights' = NoWeights
    /\ outcome' = "ValueError"
    /\ result' = NoResult

\* The investment_amount argument tried and the quotes get_stock_info may
\* answer with (whole dollars; B may have no quote).  A call that raises
\* has asked for no quote.
OptInvestments == {1000}
Quote(s) == 7 + 19 * SymIdx(s)
OptQuotes ==
    {[s \in Symbols |-> Quote(s)], [s \in Symbols \ {"B"} |-> Quote(s)]}

OptimizeSolve ==
    /\ pc = "opt_matrix"
    /\ \E profile \in RiskProfiles : \E mw \in MinWeights :
       \E amount \in OptInvestments :
          LET n  == Len(symbols)
              hi == RISK_LIMITS[profile].max_single
          IN /\ investment_amount' = amount
             /\ IF DfEmpty(returns_df) \/ SolverRaises(returns_df, n, mw, hi)
                THEN /\ OptimizeRaise(profile, mw)
                     /\ current_price' = << >>
                ELSE \E sol \in SolverOutcomes(returns_df, n, mw, hi,
                                               RISK_LIMITS[profile].max_volatility) :
                     \E quotes \in OptQuotes :
                        /\ OptimizeRest(profile, mw, sol, amount, quotes)
                        /\ current_price' = quotes
    /\ pc' = "opt_done"
    /\ fetched' = << >>
    /\ UNCHANGED <<symbols, returns_df>>
    /\ UNCHANGED btVars
    /\ UNCHANGED <<frontVars, runVars, cmpVars, current_holdings, target_weights, trades>>

\* The call is over: nothing of it is kept.
Return ==
    /\ pc = "opt_done"
    /\ pc' = "idle"
    /\ symbols' = << >>
    /\ fetched' = << >>
    /\ returns_df' = EmptyDF
    /\ risk_profile' = "moderate"
    /\ min_weight' = 2
    /\ solver' = NoSolver
    /\ optimal_weights' = NoWeights
    /\ outcome' = "none"
    /\ result' = NoResult
    /\ investment_amount' = 0
    /\ current_price' = << >>
    /\ UNCHANGED btVars
    /\ UNCHANGED <<frontVars, runVars, cmpVars, current_holdings, target_weights, trades>>

\* _calculate_portfolio_values, lines 211-232: the early return on an empty
\* frame, else the returns, the mask and the loop's initial state.
CalcStart ==
    /\ pc = "idle"
    /\ \E df \in PriceFrames : \E w \in WeightMaps : \E freq \in Frequencies :
          /\ price_data' = df
          /\ weights' = w
          /\ rebalance_frequency' = freq
          /\ IF DfEmpty(df)
             THEN /\ pc' = "calc_done"
                  /\ UNCHANGED <<returns, rebalance_mask, current_weights>>
             ELSE /\ pc' = "calc_loop"
                  /\ returns' = FillNa0(PctChange(df))
                  /\ rebalance_mask' = RebalanceMask(df.index, freq)
                  /\ current_weights' = w
    /\ row' = 0
    /\ current_value' = << 1, 1 >>
    /\ portfolio_values' = << >>
    /\ UNCHANGED optVars
    /\ UNCHANGED otherVars

\* Lines 234-246: one iteration of the loop over the rows of returns.
CalcStep ==
    /\ pc = "calc_loop"
    /\ row < Len(returns.index)
    /\ LET i == row + 1
           r == DailyPortReturn(returns, returns.index[i], current_weights, weights)
           v == RatMul(current_value,
                       Reduce(<< WeightUnits * RetDen + r, WeightUnits * RetDen >>))
       IN /\ current_value' = v
          /\ portfolio_values' = Append(portfolio_values, v)
          /\ current_weights' = WeightsAfter(current_weights, weights, rebalance_mask[i])
          /\ row' = i
    /\ UNCHANGED <<pc, price_data, weights, rebalance_frequency, returns, rebalance_mask>>
    /\ UNCHANGED optVars
    /\ UNCHANGED otherVars

\* Line 248: the loop is over, the series is returned.
CalcReturn ==
    /\ pc = "calc_loop"
    /\ row = Len(returns.index)
    /\ pc' = "calc_done"
    /\ UNCHANGED btVars
    /\ UNCHANGED optVars
    /\ UNCHANGED otherVars

\* The caller has the series: nothing of the call is kept.
CalcForget ==
    /\ pc = "calc_done"
    /\ pc' = "idle"
    /\ price_data' = EmptyDF
    /\ weights' = << >>
    /\ rebalance_frequency' = "monthly"
    /\ returns' = EmptyDF
    /\ rebalance_mask' = << >>
    /\ row' = 0
    /\ current_value' = << 1, 1 >>
    /\ current_weights' = << >>
    /\ portfolio_values' = << >>
    /\ UNCHANGED optVars
    /\ UNCHANGED otherVars

NextBT == CalcStart \/ CalcStep \/ CalcReturn \/ CalcForget

SpecBT == Init /\ [][NextBT]_vars

NextOpt == OptimizeFetch \/ OptimizeSolve \/ Return

SpecOpt == Init /\ [][NextOpt]_vars

\* ------------------------------------------------- run_backtest calls --
\* The caller's weight maps: whole raw weights over no symbol, A, or A and
\* B, and the one-symbol portfolio of T.
RawWeights == 0..2
RawPortfolios ==
    UNION {[K -> RawWeights] : K \in {{}, {"A"}, {"A", "B"}}}
    \cup {[s \in {TickSymbol} |-> 1]}

\* The requests: the dates are left out (the defaults of lines 82-85) or
\* are the window's first and last trading day, the frequency is the
\* default one or the one the benchmark is run with.
Requests ==
    {[portfolio |-> p, start_date |-> d[1], end_date |-> d[2],
      rebalance_frequency |-> f] :
        p \in RawPortfolios,
        d \in {<< NoDate, NoDate >>, << BusinessDays[1], BusinessDays[MaxDay] >>},
        f \in {"daily", "monthly"}}

\* What the provider may have for the symbols a request asks about (B:
\* nothing or the whole window).
CoveragesOf(s) == IF s = "B" THEN {{}, 1..MaxDay} ELSE Coverages
ProviderStates(req) ==
    LET asked == DOMAIN req.portfolio \cup {DEFAULT_BENCHMARK}
    IN {[s \in asked |-> History(s, cover[s])] :
           cover \in {c \in [asked -> Coverages] : \A s \in asked : c[s] \in CoveragesOf(s)}}

\* What datetime.now() may read during a call: the last two trading days
\* of the window.
Clock == {BusinessDays[MaxDay - 1], BusinessDays[MaxDay]}

\* A call of run_backtest (lines 58-174), from the arguments to the raise
\* or the return.
RunBacktest ==
    /\ pc = "idle"
    /\ \E req \in Requests : \E hist \in ProviderStates(req) : \E t \in Clock :
          /\ request' = req
          /\ history' = hist
          /\ backtest' = run_backtest(req, hist, t)
    /\ pc' = "run_done"
    /\ UNCHANGED repeat
    /\ UNCHANGED <<frontVars, optVars, btVars, cmpVars, rebVars>>

\* The caller makes the same call again, at whatever time, the provider's
\* data being what it was.
RunAgain ==
    /\ pc = "run_done"
    /\ \E t \in Clock : repeat' = run_backtest(request, history, t)
    /\ pc' = "run_again"
    /\ UNCHANGED <<request, history, backtest>>
    /\ UNCHANGED <<frontVars, optVars, btVars, cmpVars, rebVars>>

\* The caller drops the results.
RunForget ==
    /\ pc \in {"run_done", "run_again"}
    /\ pc' = "idle"
    /\ request' = NoRequest
    /\ history' = << >>
    /\ backtest' = Raised("none")
    /\ repeat' = Raised("none")
    /\ UNCHANGED <<frontVars, optVars, btVars, cmpVars, rebVars>>

NextRun == RunBacktest \/ RunAgain \/ RunForget

SpecRun == Init /\ [][NextRun]_vars

\* --------------------------------------------- compare_strategies calls
\* Number of strategies a caller compares.
MaxStrategies == 3

\* The strategies compared: all of A, or A at weight 0.
CompareRequests ==
    {[strategies |-> st, start_date |-> d[1], end_date |-> d[2]] :
        st \in UNION {[{StrategyNames[i] : i \in 1..n} -> [{"A"} -> {0, 1}]] :
                        n \in 0..MaxStrategies},
        d \in {<< NoDate, NoDate >>, << BusinessDays[1], BusinessDays[MaxDay] >>}}

\* A call of compare_strategies (lines 250-269).
CompareStrategies ==
    /\ pc = "idle"
    /\ \E req \in CompareRequests :
       \E hist \in ProviderStates([portfolio |-> [s \in {"A"} |-> 1]]) :
       \E t \in Clock :
          /\ compare_request' = req
          /\ history' = hist
          /\ now' = t
          /\ comparison' = compare_strategies(req, hist, t)
    /\ pc' = "cmp_done"
    /\ UNCHANGED <<request, backtest, repeat>>
    /\ UNCHANGED <<frontVars, optVars, btVars, rebVars>>

\* The caller drops the map.
CompareForget ==
    /\ pc = "cmp_done"
    /\ pc' = "idle"
    /\ compare_request' = NoCompareRequest
    /\ history' = << >>
    /\ now' = BusinessDays[MaxDay]
    /\ comparison' = NoComparison
    /\ UNCHANGED <<request, backtest, repeat>>
    /\ UNCHANGED <<frontVars, optVars, btVars, rebVars>>

NextCmp == CompareStrategies \/ CompareForget

SpecCmp == Init /\ [][NextCmp]_vars

\* -------------------------------------------- rebalance_portfolio calls
\* The holdings (shares per symbol held), the quotes and the fresh money a
\* caller may come with.
HoldingsMaps == UNION {[K -> {0, 1, 4}] : K \in SUBSET PortSyms}
PriceQuotes == [PortSyms -> {0, 25, 100}]
InvestmentAmounts == {-100, 0, 100, 240}

\* A call of rebalance_portfolio (lines 243-286).
RebalancePortfolio ==
    /\ pc = "idle"
    /\ \E h \in HoldingsMaps : \E w \in WeightMaps :
       \E amount \in InvestmentAmounts : \E quotes \in PriceQuotes :
          /\ current_holdings' = h
          /\ target_weights' = w
          /\ investment_amount' = amount
          /\ current_price' = quotes
          /\ trades' = rebalance_portfolio(h, w, amount, quotes)
    /\ pc' = "reb_done"
    /\ UNCHANGED <<frontVars, optVars, btVars, runVars, cmpVars>>

\* The caller drops the list.
RebalanceForget ==
    /\ pc = "reb_done"
    /\ pc' = "idle"
    /\ current_holdings' = << >>
    /\ target_weights' = << >>
    /\ investment_amount' = 0
    /\ current_price' = << >>
    /\ trades' = << >>
    /\ UNCHANGED <<frontVars, optVars, btVars, runVars, cmpVars>>

NextReb == RebalancePortfolio \/ RebalanceForget

SpecReb == Init /\ [][NextReb]_vars

\* The n_portfolios arguments tried.
MaxFrontier == 3
FrontierSizes == 1..MaxFrontier

\* A call of get_efficient_frontier (lines 194-241).  The draws move the
\* process-wide generator on.
GetEfficientFrontier ==
    /\ pc = "idle"
    /\ \E syms \in PortLists : \E resp \in Responses(syms) : \E n \in FrontierSizes :
          LET call == get_efficient_frontier(syms, resp, n, rng)
          IN /\ frontier_call' = [symbols |-> syms, n_portfolios |-> n,
                                  outcome |-> call.outcome]
             /\ results' = call.results
             /\ frontier' = call.frontier
             /\ rng' = Advance(rng, call.draws)
    /\ pc' = "front_done"
    /\ UNCHANGED <<optVars, btVars, runVars, cmpVars, rebVars>>

\* The caller drops the list; the generator stays where the call left it.
FrontierForget ==
    /\ pc = "front_done"
    /\ pc' = "idle"
    /\ frontier_call' = NoFrontierCall
    /\ results' = << >>
    /\ frontier' = << >>
    /\ UNCHANGED rng
    /\ UNCHANGED <<optVars, btVars, runVars, cmpVars, rebVars>>

NextFront == GetEfficientFrontier \/ FrontierForget

SpecFront == Init /\ [][NextFront]_vars

\* ------------------------------------------------ optimizer claims -----
Returned == pc = "opt_done" /\ outcome = "ok"
AllHaveData == Len(returns_df.columns) = Len(symbols)
MatrixIsEmpty == Len(returns_df.index) = 0 \/ Len(returns_df.columns) = 0

\* C1 (as claimed): the weights of every returned OptimizationResult sum to
\* within 1e-6 of 1.0 (weights are in units of 1e-4, so 1e-6 is 1/100 unit).
C1_WeightsSumToOne ==
    Returned => 100 * Abs(SumFn(result.weights) - 10000) <= 1

\* C2 (as claimed): every weight of a returned result lies within
\* [min_weight, max_single(risk_profile)].
C2_WeightsWithinBox ==
    Returned =>
        \A s \in DOMAIN result.weights :
            /\ 100 * min_weight <= result.weights[s]
            /\ result.weights[s] <= 100 * RISK_LIMITS[risk_profile].max_single

\* C3 (as claimed): when the solver reports failure over n symbols, the
\* result holds all n symbols, each with weight exactly 1/n.
C3_FallbackIsExactlyEqualWeight ==
    (Returned /\ ~solver.success) =>
        /\ DOMAIN result.weights = Range(symbols)
        /\ \A s \in DOMAIN result.weights :
              result.weights[s] * Len(symbols) = 10000

\* C4 (as claimed): the annualised volatility at the returned weights does
\* not exceed max_volatility(risk_profile) by more than a tolerance (taken
\* generously as one percentage point), fallback included.
C4_VolatilityWithinLimit ==
    (Returned /\ ~CovIsNaN(returns_df)) =>
        VolWithin(returns_df, optimal_weights.num, optimal_weights.den,
                  RISK_LIMITS[risk_profile].max_volatility + 1, 100)

\* C5 (as claimed): optimize with exactly one symbol that has price history
\* returns weights {symbol: 1.0}, for every risk profile.
C5_SingleSymbolAlways ==
    (pc = "opt_done" /\ Len(symbols) = 1 /\ Len(returns_df.columns) = 1) =>
        (outcome = "ok" /\ result.weights = [s \in Range(symbols) |-> 10000])

\* C5 (amended): optimize with exactly one symbol whose history gives a
\* non-empty returns matrix (at least two dated prices), with min_weight not
\* above the profile's max_single, returns weights {symbol: 1.0}, for every
\* risk profile.
C5_SingleSymbolWithUsableHistory ==
    (pc = "opt_done" /\ Len(symbols) = 1 /\ ~MatrixIsEmpty
        /\ min_weight <= RISK_LIMITS[risk_profile].max_single) =>
        (outcome = "ok" /\ result.weights = [s \in Range(symbols) |-> 10000])

C5_Witness ==
    /\ pc = "opt_done" /\ Len(symbols) = 1 /\ ~MatrixIsEmpty
    /\ risk_profile = "conservative" /\ min_weight = 2
    /\ outcome = "ok" /\ result.weights = [s \in Range(symbols) |-> 10000]

\* C6 (as claimed): a symbol with an empty series is dropped and the call
\* still returns a result when some symbol has usable data; the call fails
\* only when no symbol has usable data (the bounds being consistent).
C6_DroppedSymbolStillCompletes ==
    (pc = "opt_done" /\ min_weight <= RISK_LIMITS[risk_profile].max_single) =>
        (outcome = "ValueError" <=> MatrixIsEmpty)

\* C7: when the returns matrix is empty (no symbol with history, or fewer
\* than two common dates), optimize raises and returns no result.
C7_EmptyMatrixRaises ==
    (pc = "opt_done" /\ MatrixIsEmpty) =>
        (outcome = "ValueError" /\ result = NoResult)

C7_Witness ==
    /\ pc = "opt_done" /\ outcome = "ValueError"
    /\ Len(returns_df.columns) = 2 /\ Len(returns_df.index) = 0

\* The symbols of the call whose series the provider answered non-empty.
Included == {s \in Range(symbols) : DOMAIN fetched[s] # {}}
\* The dates present in the series of every included symbol.
CommonDates == {d \in Dates : \A s \in Included : d \in DOMAIN fetched[s]}
\* The latest common date before d.
PrevCommon(d) == Max({e \in CommonDates : e < d})

\* C8: the returns matrix has one column per symbol with non-empty history;
\* its rows are the dates common to all included series minus the earliest,
\* ascending; every cell holds price / previous price - 1; with no data at
\* all it is the empty matrix.
C8_ReturnsMatrixShape ==
    pc = "opt_matrix" =>
        IF Included = {} THEN returns_df = EmptyDF
        ELSE /\ returns_df.columns = SelectSeqIn(symbols, Included)
             /\ returns_df.index =
                   IF CommonDates = {} THEN << >>
                   ELSE SortedSeq(CommonDates \ {Min(CommonDates)})
             /\ \A i \in 1..Len(returns_df.index) : \A s \in Included :
                   LET d == returns_df.index[i]
                   IN returns_df.val[<<d, s>>] =
                        << ((fetched[s][d] - fetched[s][PrevCommon(d)]) * RetDen)
                              \div fetched[s][PrevCommon(d)] >>

C8_Witness ==
    /\ pc = "opt_matrix"
    /\ Cardinality(Included) = 2 /\ Cardinality(Range(symbols)) = 3
    /\ \E s \in Included : DOMAIN fetched[s] # CommonDates
    /\ Len(returns_df.index) = 1

\* ------------------------------------------------- backtest claims -----
MatrixIsEmptyBT == Len(price_data.index) = 0 \/ Len(price_data.columns) = 0

\* RetDen * WeightUnits times the value of one unit of the portfolio after
\* the returns of date d, for the weights cw.
GrownTotal(d, cw) ==
    SumFn([s \in DOMAIN cw |-> cw[s] * (RetDen + ReturnOf(returns, d, s))])

\* C9 (as claimed): after a row that is not a rebalance date and that
\* another row follows, the current weights (those the next row's return is
\* weighted by) are the previous ones drifted by the row's asset returns,
\*   cw'[s] / WeightUnits = cw[s] (1 + r[s]) / sum_j cw[j] (1 + r[j]),
\* and after a rebalance date they are the target weights.
C9_WeightsDriftBetweenRebalances ==
    [][(pc = "calc_loop" /\ row' = row + 1 /\ row' < Len(returns.index)) =>
          IF rebalance_mask[row'] THEN current_weights' = weights
          ELSE \A s \in DOMAIN weights :
                  current_weights'[s] * GrownTotal(returns.index[row'], current_weights)
                    = WeightUnits * current_weights[s]
                        * (RetDen + ReturnOf(returns, returns.index[row'], s))]_vars

\* The calendar period of a date and the first day of that period.
PeriodOf(d, freq) ==
    CASE freq = "weekly"    -> (d - 1) \div 7
      [] freq = "monthly"   -> Cardinality({m \in MonthStarts : m <= d})
      [] freq = "quarterly" -> Cardinality({q \in {1, 92, 183, 275} : q <= d})
PeriodStart(d, freq) ==
    CASE freq = "weekly"    -> d - DayOfWeek(d)
      [] freq = "monthly"   -> Max({m \in MonthStarts : m <= d})
      [] freq = "quarterly" -> Max({q \in {1, 92, 183, 275} : q <= d})

\* C10 (as claimed): with a weekly, monthly or quarterly frequency the dates
\* flagged are exactly the first dates of the index in each week, month or
\* quarter (stated for the periods that begin within the index's span).
C10_FirstTradingDayFlagged ==
    (pc \in {"calc_loop", "calc_done"} /\ ~MatrixIsEmptyBT
        /\ rebalance_frequency \in {"weekly", "monthly", "quarterly"}) =>
        \A i \in 1..Len(returns.index) :
            LET d == returns.index[i]
                f == rebalance_frequency
            IN PeriodStart(d, f) >= returns.index[1] =>
                  (rebalance_mask[i] <=>
                      \A k \in 1..(i - 1) :
                          PeriodOf(returns.index[k], f) # PeriodOf(d, f))

\* ------------------------------------------------ run_backtest claims --
Called == pc \in {"run_done", "run_again"}
BacktestReturned == Called /\ backtest.outcome = "ok"
\* The daily returns of the portfolio and of the benchmark (lines 112-113).
PortfolioReturns == SeriesReturns(backtest.portfolio_values)
BenchmarkReturns == SeriesReturns(backtest.benchmark_values)

\* C11 (as claimed): whatever the sum of the caller's weights, the
\* normalisation does not fail, and the weights the simulation uses sum to
\* 1 and keep the caller's proportions.
C11_NormalizationNeverFails ==
    Called =>
        /\ backtest.outcome # "ZeroDivisionError"
        /\ backtest.outcome = "ok" =>
              /\ RatSum(backtest.portfolio) = << 1, 1 >>
              /\ \A s \in DOMAIN request.portfolio :
                    backtest.portfolio[s][1] * SumFn(request.portfolio)
                      = request.portfolio[s] * backtest.portfolio[s][2]

\* Some symbol of the portfolio has no price history at all.
LacksHistory == \E s \in DOMAIN request.portfolio : IsEmptySeries(history[s])

\* C12 (as claimed): a portfolio holding a symbol without any price history
\* gets no BacktestResult, be the symbol alone or one among several.
C12_MissingHistoryRaises ==
    (Called /\ LacksHistory) => backtest.outcome # "ok"

\* No value of the series is below the one before it.
Monotone(vals) == \A i \in 1..(Len(vals) - 1) : ~RatLessPos(vals[i + 1], vals[i])
\* No value of the series lies more than 0.005 % below an earlier one.
NoVisibleDrop(vals) ==
    \A i \in 1..Len(vals) : \A j \in i..Len(vals) :
        LET r == RatDiv(vals[j], vals[i]) IN r[2] - r[1] <= r[2] \div 20000

\* C13 (as claimed): max_drawdown <= 0, and it is 0 only when the value
\* series never decreases.
C13_DrawdownZeroOnlyIfMonotone ==
    BacktestReturned =>
        /\ backtest.result.max_drawdown <= 0
        /\ backtest.result.max_drawdown = 0 => Monotone(backtest.portfolio_values)

\* C13 (amended): max_drawdown <= 0, and it is 0 only when no value lies
\* more than 0.005 % under an earlier one (the field is a percentage
\* rounded to two decimals).
C13_DrawdownZeroOnlyIfNoVisibleDrop ==
    BacktestReturned =>
        /\ backtest.result.max_drawdown <= 0
        /\ backtest.result.max_drawdown = 0 => NoVisibleDrop(backtest.portfolio_values)

\* A result reports a drawdown of 0 for a series that decreases somewhere.
C13_Witness ==
    /\ BacktestReturned
    /\ backtest.result.max_drawdown = 0
    /\ ~Monotone(backtest.portfolio_values)

NoLosingDay == \A i \in 1..Len(PortfolioReturns) : PortfolioReturns[i][1] >= 0

\* C14: when no daily return of the portfolio is negative, the result's
\* sortino_ratio is the literal 0 (no exception, no NaN).
C14_SortinoZeroWithoutLosingDays ==
    (BacktestReturned /\ NoLosingDay) => backtest.result.sortino_ratio = "zero"

\* A result over at least two winning or flat days that are not all alike.
C14_Witness ==
    /\ BacktestReturned
    /\ NoLosingDay
    /\ StdKind(PortfolioReturns) = "pos"

\* C15 (as claimed): zero variance of the portfolio returns gives sharpe 0,
\* zero downside deviation gives sortino 0, zero variance of the benchmark
\* returns (the series being as long as the portfolio's) gives beta 0.
C15_DegenerateDenominatorsGiveZero ==
    BacktestReturned =>
        /\ StdKind(PortfolioReturns) = "zero" => backtest.result.sharpe_ratio = "zero"
        /\ StdKind(Downside(PortfolioReturns)) = "zero"
              => backtest.result.sortino_ratio = "zero"
        /\ (Len(PortfolioReturns) = Len(BenchmarkReturns)
              /\ StdKind(BenchmarkReturns) = "zero") => backtest.result.beta = "zero"

\* C16 (as claimed): no statistical field of a returned result is NaN.
C16_StatisticsAreFinite ==
    BacktestReturned =>
        \A f \in {"cagr", "volatility", "sharpe_ratio", "sortino_ratio", "alpha", "beta"} :
            backtest.result[f] # "nan"

\* The portfolio values were computed and the two return series differ in
\* length.
LengthsDiffer ==
    /\ backtest.portfolio_values # << >>
    /\ Len(PortfolioReturns) # Len(BenchmarkReturns)

ExplicitDates == request.start_date # NoDate /\ request.end_date # NoDate

\* C19: a second call with the same arguments (explicit dates) and the
\* same provider data ends as the first and returns the same equity curve
\* and statistics, whenever it is made.
C19_SameCallSameResult ==
    (pc = "run_again" /\ ExplicitDates) => repeat = backtest

C19_Witness ==
    /\ pc = "run_again"
    /\ ExplicitDates
    /\ repeat.outcome = "ok"
    /\ Len(repeat.portfolio_values) >= 2

\* -------------------------------------------- compare_strategies claims
\* What the map holds for a strategy evaluated on its own: the result of
\* its backtest, or the error message when the backtest raises.
OwnEntry(name) ==
    LET run == run_backtest(StrategyRequest(compare_request, name), history, now)
    IN IF run.outcome = "ok" THEN run.result ELSE [error |-> run.outcome]

\* C18: compare_strategies returns a map with exactly one entry per
\* strategy name; each entry is the strategy's own result or its own error
\* message, whatever happened to the strategies before and after it.
C18_OneEntryPerStrategy ==
    pc = "cmp_done" =>
        /\ comparison.outcome = "ok"
        /\ DOMAIN comparison.results = DOMAIN compare_request.strategies
        /\ \A name \in DOMAIN compare_request.strategies :
              comparison.results[name] = OwnEntry(name)

\* A strategy whose backtest raises stands between two strategies that get
\* a result.
C18_Witness ==
    /\ pc = "cmp_done"
    /\ DOMAIN compare_request.strategies = {"s1", "s2", "s3"}
    /\ "error" \in DOMAIN comparison.results["s2"]
    /\ "error" \notin DOMAIN comparison.results["s1"]
    /\ "error" \notin DOMAIN comparison.results["s3"]

\* ------------------------------------------- rebalance_portfolio claims
\* The holdings are worth something and, valued at the current prices,
\* have exactly the target weights (a symbol outside the targets is worth
\* nothing).
AtTarget ==
    LET values == CurrentValues(current_holdings, current_price)
    IN /\ SumFn(values) > 0
       /\ \A s \in DOMAIN values \cup DOMAIN target_weights :
             WeightUnits * (IF s \in DOMAIN values THEN values[s] ELSE 0)
               = SumFn(values) * (IF s \in DOMAIN target_weights THEN target_weights[s] ELSE 0)

\* C20 (as claimed): holdings that are exactly at the target weights give
\* an empty trade list, whatever the investment_amount.
C20_AtTargetNoTradeAnyAmount ==
    (pc = "reb_done" /\ AtTarget) => trades = << >>

\* No target position's share of the fresh money exceeds the threshold.
SmallShares ==
    \A s \in DOMAIN target_weights :
        Abs(investment_amount * target_weights[s]) <= MinTrade * WeightUnits

\* C20 (amended): holdings that are exactly at the target weights give an
\* empty trade list when investment_amount times each target weight is at
\* most $50 (investment_amount = 0 in particular).
C20_AtTargetNoTradeSmallAmount ==
    (pc = "reb_done" /\ AtTarget /\ SmallShares) => trades = << >>

\* Holdings at their targets, fresh money to invest, and no trade.
C20_Witness ==
    /\ pc = "reb_done"
    /\ AtTarget
    /\ investment_amount > 0
    /\ DOMAIN target_weights = PortSyms
    /\ trades = << >>

Rebalanced == pc = "reb_done"
TradeSymbols == {trades[i].symbol : i \in 1..Len(trades)}
TradeFor(s) == trades[CHOOSE i \in 1..Len(trades) : trades[i].symbol = s]
\* The dollar delta of a target symbol, times WeightUnits.
DeltaOf(s) ==
    Diff4(current_holdings, target_weights, investment_amount, current_price, s)

\* What C21 says of a trade that was emitted: one per symbol, BUY for a
\* positive and SELL for a negative delta, an amount of $50 at least.
TradesWellFormed ==
    /\ \A i, j \in 1..Len(trades) : trades[i].symbol = trades[j].symbol => i = j
    /\ \A s \in TradeSymbols :
          /\ TradeFor(s).action = (IF DeltaOf(s) > 0 THEN "BUY" ELSE "SELL")
          /\ DeltaOf(s) # 0
          /\ TradeFor(s).amount >= 100 * MinTrade

\* C21 (as claimed): a target symbol gets a trade if and only if its
\* absolute dollar delta reaches $50 (is $50 or more) and its price is
\* positive; BUY for a positive delta, SELL for a negative one, no amount
\* under the threshold.
C21_TradeIffDeltaReachesThreshold ==
    Rebalanced =>
        /\ TradeSymbols \subseteq DOMAIN target_weights
        /\ \A s \in DOMAIN target_weights :
              s \in TradeSymbols <=>
                 (Abs(DeltaOf(s)) >= MinTrade * WeightUnits /\ PriceOf(current_price, s) > 0)
        /\ TradesWellFormed

\* C21 (amended): the same with a delta that exceeds $50; a delta of
\* exactly $50 gets no trade.
C21_TradeIffDeltaExceedsThreshold ==
    Rebalanced =>
        /\ TradeSymbols \subseteq DOMAIN target_weights
        /\ \A s \in DOMAIN target_weights :
              s \in TradeSymbols <=>
                 (Abs(DeltaOf(s)) > MinTrade * WeightUnits /\ PriceOf(current_price, s) > 0)
        /\ TradesWellFormed

\* A priced symbol with a delta of exactly $50 gets no trade while another
\* symbol is traded.
C21_Witness ==
    /\ Rebalanced
    /\ \E s \in DOMAIN target_weights :
          /\ Abs(DeltaOf(s)) = MinTrade * WeightUnits
          /\ PriceOf(current_price, s) > 0
          /\ s \notin TradeSymbols
    /\ trades # << >>

\* shares * price of a holding, 0 for a symbol that is not held.
HeldValue(s) ==
    IF s \in DOMAIN current_holdings
    THEN current_holdings[s] * PriceOf(current_price, s) ELSE 0
\* The value of everything held, whether it has a target or not.
TotalHeld == SumFn([s \in DOMAIN current_holdings |-> HeldValue(s)])
Untargeted == DOMAIN current_holdings \ DOMAIN target_weights

\* C28: every trade is for a symbol of target_weights, so a symbol that is
\* held without a target is never traded (never sold); the value of such a
\* holding is still part of the total every target position is sized from.
C28_TradesOnlyForTargets ==
    Rebalanced =>
        /\ \A s \in Untargeted : s \notin TradeSymbols
        /\ \A s \in TradeSymbols :
              /\ s \in DOMAIN target_weights
              /\ TradeFor(s).amount =
                    RoundTo(<< Abs((TotalHeld + investment_amount) * target_weights[s]
                                   - WeightUnits * HeldValue(s)),
                               WeightUnits >>, 2)

\* A holding with a positive value and no target stays untouched while a
\* target symbol is traded.
C28_Witness ==
    /\ Rebalanced
    /\ \E s \in Untargeted : HeldValue(s) > 0
    /\ trades # << >>

\* 50 < |dollar delta| < price for a target symbol s
BetweenThresholdAndPrice(s) ==
    /\ Abs(DeltaOf(s)) > MinTrade * WeightUnits
    /\ Abs(DeltaOf(s)) < WeightUnits * PriceOf(current_price, s)

\* C29: the share count of a trade is the dollar delta over the price,
\* truncated toward zero, whatever the $50 filter decided: a trade of zero
\* shares is emitted exactly for the target symbols with
\* 50 < |delta| < price, and shares * price never exceeds the amount.
C29_ZeroShareTrades ==
    Rebalanced =>
        /\ \A s \in DOMAIN target_weights :
              (s \in TradeSymbols /\ TradeFor(s).shares = 0)
                 <=> BetweenThresholdAndPrice(s)
        /\ \A i \in 1..Len(trades) :
              /\ trades[i].shares >= 0
              /\ trades[i].shares * trades[i].price <= trades[i].amount
              /\ (trades[i].shares + 1) * trades[i].price > trades[i].amount

\* A trade of zero shares next to a trade of some shares.
C29_Witness ==
    /\ Rebalanced
    /\ \E i, j \in 1..Len(trades) : trades[i].shares = 0 /\ trades[j].shares > 0

\* Sum of target weight x asset return on the i-th row, in
\* 1 / (WeightUnits * RetDen).
TargetReturn(i) ==
    SumFn([s \in DOMAIN weights |-> weights[s] * ReturnOf(returns, returns.index[i], s)])
Simulating == pc \in {"calc_loop", "calc_done"} /\ ~DfEmpty(price_data)

\* C25: whatever the rebalance frequency (daily, weekly, monthly, quarterly
\* or an unrecognised string), at the start of every simulated day the
\* current weights are the target weights, and every value is the previous
\* value (the initial value for the first day) times
\* 1 + sum of target weight x asset return; the series does not depend on
\* the frequency.
C25_FrequencyHasNoEffect ==
    Simulating =>
        /\ current_weights = weights
        /\ Len(portfolio_values) = row
        /\ \A i \in 1..row :
              portfolio_values[i] =
                  RatMul(IF i = 1 THEN << 1, 1 >> ELSE portfolio_values[i - 1],
                         Reduce(<< WeightUnits * RetDen + TargetReturn(i),
                                   WeightUnits * RetDen >>))

\* A finished simulation with a frequency other than daily in which a day
\* that is not a rebalance date is followed by a day the assets moved on.
C25_Witness ==
    /\ pc = "calc_done" /\ ~DfEmpty(price_data)
    /\ rebalance_frequency \in {"weekly", "monthly", "quarterly", "yearly"}
    /\ Cardinality(DOMAIN weights) = 2
    /\ \E i \in 1..(row - 1) :
          /\ ~rebalance_mask[i]
          /\ \E s \in DOMAIN weights : ReturnOf(returns, returns.index[i], s) # 0
          /\ TargetReturn(i + 1) # 0

\* The frames the call of run_backtest got from _get_price_data (lines 93
\* and 99).
PortfolioData ==
    GetPriceData(SelectSeqIn(KeyOrder, DOMAIN request.portfolio), history,
                 backtest.start_date, backtest.end_date)
BenchmarkData ==
    GetPriceData(<< DEFAULT_BENCHMARK >>, history,
                 backtest.start_date, backtest.end_date)
\* The symbols of the portfolio the provider has no history of.
Missing == {s \in DOMAIN request.portfolio : IsEmptySeries(history[s])}
SeveralWithSomeMissing ==
    /\ Called
    /\ Cardinality(DOMAIN request.portfolio) >= 2
    /\ Missing # {}
\* Some symbol of the portfolio has a close within the window.
SomeSymbolHasData ==
    \E s \in DOMAIN request.portfolio :
        \E d \in DOMAIN history[s] : backtest.start_date <= d /\ d <= backtest.end_date
\* The price frame with a column of constant price (cash) for every symbol
\* in missing.
WithCash(df, missing) ==
    [columns |-> df.columns \o SelectSeqIn(KeyOrder, missing),
     index   |-> df.index,
     val     |-> [c \in Range(df.index) \X (Range(df.columns) \cup missing) |->
                    IF c[2] \in missing THEN << 1 >> ELSE df.val[c]]]
\* The weights are the caller's over their sum, every supplied symbol
\* included, and the value series is that of the portfolio in which the
\* missing symbols are cash.
MissingSymbolsAreCash ==
    /\ DOMAIN backtest.portfolio = DOMAIN request.portfolio
    /\ \A s \in DOMAIN request.portfolio :
          backtest.portfolio[s][1] * SumFn(request.portfolio)
            = request.portfolio[s] * backtest.portfolio[s][2]
    /\ backtest.portfolio_values =
          CalculatePortfolioValues(WithCash(PortfolioData, Missing),
                                   backtest.portfolio, request.rebalance_frequency)

\* C26 (as claimed): with several symbols of which some have no history,
\* the weights are normalized over all supplied symbols, a missing symbol
\* counts as cash at its full weight, and (the weights having a sum to
\* divide by) a result is returned as soon as one symbol has data in the
\* window.
C26_ResultWheneverSomeSymbolHasData ==
    SeveralWithSomeMissing =>
        /\ backtest.outcome = "ok" => MissingSymbolsAreCash
        /\ (SomeSymbolHasData /\ SumFn(request.portfolio) # 0)
              => backtest.outcome = "ok"

\* C26 (amended): the same, a result being returned exactly when the
\* weights do not sum to zero, the symbols that have a history share a
\* trading day of the window and the benchmark has a price row in it.
C26_ResultWhenBenchmarkHasDataToo ==
    SeveralWithSomeMissing =>
        /\ backtest.outcome = "ok" => MissingSymbolsAreCash
        /\ backtest.outcome = "ok" <=>
              /\ SumFn(request.portfolio) # 0
              /\ ~DfEmpty(PortfolioData)
              /\ ~DfEmpty(BenchmarkData)

\* A result for two symbols of which the one without history has a
\* positive weight and the other one moved.
C26_Witness ==
    /\ SeveralWithSomeMissing
    /\ backtest.outcome = "ok"
    /\ \E s \in Missing : request.portfolio[s] > 0
    /\ backtest.result.total_return # 0

\* C27: when the benchmark has no price row in the window while the
\* portfolio has some, no BacktestResult is returned: the call raises on
\* the empty benchmark series (line 117) before alpha and beta are set.
C27_EmptyBenchmarkRaises ==
    (Called /\ ~DfEmpty(PortfolioData) /\ DfEmpty(BenchmarkData)) =>
        /\ backtest.outcome \in {"IndexError", "ZeroDivisionError"}
        /\ backtest.outcome = "IndexError" <=> SumFn(request.portfolio) # 0
        /\ backtest.result = NoStatistics

\* The portfolio has rows in the window and a value series was computed,
\* the benchmark has a history but no row in the window.
C27_Witness ==
    /\ Called
    /\ ~DfEmpty(PortfolioData) /\ DfEmpty(BenchmarkData)
    /\ ~IsEmptySeries(history[DEFAULT_BENCHMARK])
    /\ Len(backtest.portfolio_values) >= 2
    /\ backtest.outcome = "IndexError"

\* ----------------------------------------------- optimize: allocations --
\* The position of an allocation's symbol in the symbols argument.
IndexOf(s) == CHOOSE i \in 1..Len(symbols) : symbols[i] = s
\* sum(shares * price) over the allocations, in cents.
TotalCost ==
    SumSeq([i \in 1..Len(result.allocations) |->
               result.allocations[i].shares * result.allocations[i].price])

\* C24: in every result, an allocation with a positive price holds the
\* largest whole number of shares whose cost does not exceed
\* investment_amount * weight, an allocation without a positive price holds
\* none, and so the total cost does not exceed investment_amount (the
\* residual cash is not negative).
C24_SharesAreFloorOfAmount ==
    (pc = "opt_done" /\ outcome = "ok") =>
        /\ \A k \in 1..Len(result.allocations) :
              LET a     == result.allocations[k]
                  num   == optimal_weights.num[IndexOf(a.symbol)]
                  den   == optimal_weights.den
                  price == PriceOf(current_price, a.symbol)
              IN IF price > 0
                 THEN /\ a.shares * price * den <= investment_amount * num
                      /\ (a.shares + 1) * price * den > investment_amount * num
                 ELSE a.shares = 0
        /\ TotalCost <= 100 * investment_amount

\* A result with several allocations, one of them without a price, one of
\* them with shares, and cash left over.
C24_Witness ==
    /\ pc = "opt_done" /\ outcome = "ok"
    /\ Len(result.allocations) >= 2
    /\ \E k \in 1..Len(result.allocations) : result.allocations[k].price = 0
    /\ \E k \in 1..Len(result.allocations) : result.allocations[k].shares > 0
    /\ TotalCost < 100 * investment_amount

\* The solver reported failure and the equal weight 1 / n is below
\* min_weight.
FailedBelowFloor ==
    /\ pc = "opt_done"
    /\ ~DfEmpty(returns_df)
    /\ ~SolverRaises(returns_df, Len(symbols), min_weight,
                     RISK_LIMITS[risk_profile].max_single)
    /\ ~solver.success
    /\ 100 < min_weight * Len(symbols)
EqualWeights == [i \in 1..Len(symbols) |-> 1]

\* The result of such a call: no raise, empty weights and allocations, the
\* metrics of the equal-weight portfolio over all n symbols.
EmptyWithEqualWeightMetrics ==
    /\ outcome = "ok"
    /\ result.weights = << >>
    /\ result.allocations = << >>
    /\ result.expected_return = ExpectedReturn(returns_df, EqualWeights, Len(symbols))
    /\ result.volatility = PortVol(returns_df, EqualWeights)
    /\ result.sharpe_ratio = Sharpe(returns_df, EqualWeights, Len(symbols))

FrontierReturned == pc = "front_done" /\ frontier_call.outcome = "ok"
\* A sample that is not in the returned list.
LeftOut == {r \in Range(results) : r \notin Range(frontier)}
\* Sample r lost to a returned portfolio: one of at least its return and of
\* no greater volatility.
Dominated(r) ==
    \E k \in 1..Len(frontier) :
        /\ r.return <= frontier[k].return
        /\ ~VolLess(r.volatility, frontier[k].volatility)
\* The scan ended before the list was full, so every sample was scanned.
FullyScanned == Len(frontier) < frontier_call.n_portfolios

\* C22: the returned list is ordered by volatility ascending and its
\* returns increase strictly; its first element is a sample of minimum
\* volatility; every sample left out within the scanned range (the samples
\* of a smaller volatility than the last element, and all samples when the
\* list was not cut at n_portfolios) has a return not above that of a
\* returned portfolio of no greater volatility.
C22_FrontierIsIncreasingPrefix ==
    FrontierReturned =>
        /\ Len(frontier) <= frontier_call.n_portfolios
        /\ \A k \in 1..Len(frontier) : frontier[k] \in Range(results)
        /\ \A i, j \in 1..Len(frontier) :
              i < j => /\ ~VolLess(frontier[j].volatility, frontier[i].volatility)
                       /\ frontier[i].return < frontier[j].return
        /\ results # << >> =>
              /\ frontier # << >>
              /\ \A r \in Range(results) :
                    ~VolLess(r.volatility, frontier[1].volatility)
        /\ \A r \in LeftOut :
              (FullyScanned \/ VolLess(r.volatility, frontier[Len(frontier)].volatility))
                 => Dominated(r)

\* A list of three portfolios: a sample of less risk than the last one was
\* left out, and so was one of more risk.
C22_Witness ==
    /\ FrontierReturned
    /\ Len(frontier) >= 3
    /\ \E r \in LeftOut : VolLess(r.volatility, frontier[Len(frontier)].volatility)
    /\ \E r \in LeftOut : VolLess(frontier[Len(frontier)].volatility, r.volatility)

\* C23 (as claimed): no call changes state that outlives it; in particular
\* the process-wide state (numpy's generator) is after every step what it
\* was before.
C23_NoStateSurvivesTheCall == [][rng' = rng]_vars

====
